---- MODULE Spec2Model ----
(***************************************************************************)
(* Model of src/db.rs: RedisConnection, the chat-scoped alias store and    *)
(* dialogue store kept in redis hashes.                                    *)
(*                                                                         *)
(* Rust Strings are sequences of one-character strings, so that key and    *)
(* field construction (format!, to_string, +) and the JSON encoding are    *)
(* computed character by character.                                        *)
(***************************************************************************)
EXTENDS Integers, Sequences, FiniteSets, TLC

(***************************************************************************)
(* Bounds of the model.                                                    *)
(***************************************************************************)
\* longest alias sequence handed to set_aliases
MaxAliases == 2
\* user ids Some(1) .. Some(MaxUser) next to None
MaxUser == 2

(***************************************************************************)
(* Inputs.                                                                 *)
(***************************************************************************)
\* Chat 1 is exercised on every alias and every user reference, chat -1 on
\* one alias and one user, which chat 1 has too.
ChatIds == {-1, 1}
\* the alias "1" is also the dialogue field name of user Some(1)
Aliases == {<<"f", "o", "o">>, <<"1">>}
AliasesOf(c) == IF c = 1 THEN Aliases ELSE {<<"f", "o", "o">>}
StickerIds == {<<"X">>, <<"Y">>}
FromIds == {[tag |-> "None"]} \cup {[tag |-> "Some", val |-> i] : i \in 1..MaxUser}
FromIdsOf(c) == IF c = 1 THEN FromIds ELSE {[tag |-> "Some", val |-> 1]}
AliasPairs == {p \in ChatIds \X Aliases : p[2] \in AliasesOf(p[1])}
DialoguePairs == {p \in ChatIds \X FromIds : p[2] \in FromIdsOf(p[1])}
\* outcome of the network round trip of one store command
NetOutcomes == {"ok", "err"}
\* chat and user ids the key builder is exercised on (SpecKeys)
IdSamples == {-2147483647, -120, -21, -12, -1, 0, 1, 2, 12, 21, 120, 2147483647}
OptIdSamples == {[tag |-> "None"]} \cup {[tag |-> "Some", val |-> i] : i \in IdSamples}

(***************************************************************************)
(* Rust Option / Result values.                                            *)
(***************************************************************************)
None == [tag |-> "None"]
Some(v) == [tag |-> "Some", val |-> v]
Ok(v) == [tag |-> "Ok", val |-> v]
Err(e) == [tag |-> "Err", err |-> e]
Unit == <<>>

(***************************************************************************)
(* Display for i64 (format!("{}", n), n.to_string()).                      *)
(***************************************************************************)
Digits == <<"0", "1", "2", "3", "4", "5", "6", "7", "8", "9">>

RECURSIVE fmt_u64(_)
fmt_u64(n) ==
    IF n < 10 THEN <<Digits[n + 1]>>
    ELSE fmt_u64(n \div 10) \o <<Digits[(n % 10) + 1]>>

i64_to_string(n) ==
    IF n < 0 THEN <<"-">> \o fmt_u64(0 - n) ELSE fmt_u64(n)

(***************************************************************************)
(* Key namespace builder.                                                  *)
(***************************************************************************)
get_chat_key(chat_id) ==
    <<"c", "h", "a", "t", ":">> \o i64_to_string(chat_id)

get_aliases_key(chat_id) ==
    get_chat_key(chat_id) \o <<"a", "l", "i", "a", "s", "e", "s">>

\* mutant: the dialogue hash shares the suffix of the alias hash
get_dialogues_key_aliases(chat_id) ==
    get_chat_key(chat_id) \o <<"a", "l", "i", "a", "s", "e", "s">>

get_dialogues_key(chat_id) ==
    get_chat_key(chat_id) \o <<"d", "i", "a", "l", "o", "g", "u", "e", "s">>

NO_ID == <<"N", "O", "_", "I", "D">>

\* mutant: every user reference is given the placeholder field
get_from_field_no_id(from_id) == NO_ID

\* mutant: the placeholder is a decimal number
get_from_field_zero(from_id) ==
    IF from_id.tag = "Some" THEN i64_to_string(from_id.val) ELSE <<"0">>

get_from_field(from_id) ==
    IF from_id.tag = "Some" THEN i64_to_string(from_id.val) ELSE NO_ID

(***************************************************************************)
(* serde_json, for the dialogue types the model stores:                    *)
(*   enum Dialogue { Start, Wait(i64) }   "Start"  and  {"Wait":7}         *)
(*   i64                                   7                               *)
(*   HashMap<(i64, i64), i64>              not serializable to JSON        *)
(***************************************************************************)
DStart == [ty |-> "Dialogue", variant |-> "Start", n |-> 0]
DWait(i) == [ty |-> "Dialogue", variant |-> "Wait", n |-> i]
DInt(i) == [ty |-> "i64", variant |-> "", n |-> i]
DTupleKeyMap == [ty |-> "TupleKeyMap", variant |-> "", n |-> 0]

\* the values update_dialogue is called with
DialogueValues == {DStart, DWait(7), DTupleKeyMap}
\* the types get_dialogue::<D> is instantiated with
ReadTypes == {"Dialogue", "i64"}

Quote == "\""
JStart == <<Quote, "S", "t", "a", "r", "t", Quote>>
JWaitOpen == <<"{", Quote, "W", "a", "i", "t", Quote, ":">>
JWaitClose == <<"}">>

serde_json_to_string(d) ==
    CASE d.ty = "i64" -> Ok(i64_to_string(d.n))
      [] d.ty = "Dialogue" /\ d.variant = "Start" -> Ok(JStart)
      [] d.ty = "Dialogue" /\ d.variant = "Wait" ->
            Ok(JWaitOpen \o i64_to_string(d.n) \o JWaitClose)
      [] OTHER -> Err("key must be a string")

IsDigit(ch) == \E i \in 1..10 : Digits[i] = ch
DigitVal(ch) == (CHOOSE i \in 1..10 : Digits[i] = ch) - 1

RECURSIVE digits_value(_)
digits_value(s) ==
    IF Len(s) = 0 THEN 0
    ELSE 10 * digits_value(SubSeq(s, 1, Len(s) - 1)) + DigitVal(s[Len(s)])

\* JSON number grammar restricted to integers: -? (0 | [1-9][0-9]*)
IsJsonUInt(s) ==
    /\ Len(s) > 0
    /\ \A i \in 1..Len(s) : IsDigit(s[i])
    /\ (Len(s) > 1 => s[1] # "0")

parse_i64(s) ==
    IF Len(s) > 1 /\ s[1] = "-" /\ IsJsonUInt(Tail(s))
        THEN Ok(0 - digits_value(Tail(s)))
    ELSE IF IsJsonUInt(s) THEN Ok(digits_value(s))
    ELSE Err("invalid type")

HasPrefix(s, p) == Len(s) >= Len(p) /\ SubSeq(s, 1, Len(p)) = p
HasSuffix(s, p) == Len(s) >= Len(p) /\ SubSeq(s, Len(s) - Len(p) + 1, Len(s)) = p

serde_json_from_str(D, s) ==
    CASE D = "i64" ->
            LET r == parse_i64(s)
            IN  IF r.tag = "Ok" THEN Ok(DInt(r.val)) ELSE r
      [] D = "Dialogue" ->
            IF s = JStart THEN Ok(DStart)
            ELSE IF HasPrefix(s, JWaitOpen) /\ HasSuffix(s, JWaitClose)
                    /\ Len(s) > Len(JWaitOpen) + Len(JWaitClose)
                THEN LET r == parse_i64(SubSeq(s, Len(JWaitOpen) + 1,
                                               Len(s) - Len(JWaitClose)))
                     IN  IF r.tag = "Ok" THEN Ok(DWait(r.val)) ELSE r
            ELSE Err("unknown variant")
      [] OTHER -> Err("invalid type")

(***************************************************************************)
(* The redis server: keys holding hashes.  A hash that loses its last      *)
(* field is deleted with its key.                                          *)
(***************************************************************************)
EmptyDb == [k \in {} |-> <<>>]
EmptyHash == [f \in {} |-> <<>>]

RNil == [t |-> "Nil", v |-> <<>>, n |-> 0]
RBulk(v) == [t |-> "Bulk", v |-> v, n |-> 0]
RInt(n) == [t |-> "Int", v |-> <<>>, n |-> n]

HasField(db, key, field) == key \in DOMAIN db /\ field \in DOMAIN db[key]

\* HSET key field value
hset(db, key, field, value) ==
    LET old == IF key \in DOMAIN db THEN db[key] ELSE EmptyHash
        new == [f \in (DOMAIN old) \cup {field} |->
                    IF f = field THEN value ELSE old[f]]
    IN  [db  |-> [k \in (DOMAIN db) \cup {key} |-> IF k = key THEN new ELSE db[k]],
         rep |-> RInt(IF HasField(db, key, field) THEN 0 ELSE 1)]

\* HGET key field
hget(db, key, field) ==
    [db  |-> db,
     rep |-> IF HasField(db, key, field) THEN RBulk(db[key][field]) ELSE RNil]

\* HDEL key field
hdel(db, key, field) ==
    IF ~HasField(db, key, field) THEN [db |-> db, rep |-> RInt(0)]
    ELSE LET rest == (DOMAIN db[key]) \ {field}
         IN  [db  |-> IF rest = {}
                        THEN [k \in (DOMAIN db) \ {key} |-> db[k]]
                        ELSE [k \in DOMAIN db |->
                                IF k = key THEN [f \in rest |-> db[key][f]]
                                ELSE db[k]],
              rep |-> RInt(1)]

\* one round trip: a command that fails on the way is not applied
roundtrip(db, net, cmd) ==
    IF net = "ok" THEN [db |-> cmd.db, rep |-> Ok(cmd.rep)]
    ELSE [db |-> db, rep |-> Err("RedisError")]

\* redis::FromRedisValue for (), String, Option<String> and i64
from_redis_unit(r) == IF r.tag = "Ok" THEN Ok(Unit) ELSE r
from_redis_string(r) ==
    IF r.tag # "Ok" THEN r
    ELSE IF r.val.t = "Bulk" THEN Ok(r.val.v)
    ELSE Err("RedisError")
from_redis_opt_string(r) ==
    IF r.tag # "Ok" THEN r
    ELSE IF r.val.t = "Bulk" THEN Ok(Some(r.val.v))
    ELSE IF r.val.t = "Nil" THEN Ok(None)
    ELSE Err("RedisError")
from_redis_i64(r) ==
    IF r.tag # "Ok" THEN r
    ELSE IF r.val.t = "Int" THEN Ok(r.val.n)
    ELSE Err("RedisError")

(***************************************************************************)
(* crate::logs::format_log_chat: a log line made of the event text and the *)
(* chat id.  The event text is kept without its interpolated values.       *)
(***************************************************************************)
format_log_chat(msg, chat_id) == [msg |-> msg, chat |-> chat_id]

(***************************************************************************)
(* Alias store.  Each operation maps the store before the call to the      *)
(* store after it (db), the value returned (ret), the result of the store  *)
(* command (store), the number of store commands issued (nops) and the     *)
(* log lines written (logs).                                               *)
(***************************************************************************)
\* mutant: field and value handed to HSET in the wrong order
set_alias_swapped(db, chat_id, alias, sticker_id, net) ==
    LET key == get_aliases_key(chat_id)
        rt == roundtrip(db, net, hset(db, key, sticker_id, alias))
        set_result == from_redis_unit(rt.rep)
    IN  [db    |-> rt.db,
         ret   |-> Unit,
         store |-> set_result,
         nops  |-> 1,
         logs  |-> <<format_log_chat(
                        IF set_result.tag = "Ok" THEN "Saved alias"
                        ELSE "Failed to save alias to DB", chat_id)>>]

set_alias(db, chat_id, alias, sticker_id, net) ==
    LET key == get_aliases_key(chat_id)
        rt == roundtrip(db, net, hset(db, key, alias, sticker_id))
        set_result == from_redis_unit(rt.rep)
    IN  [db    |-> rt.db,
         ret   |-> Unit,
         store |-> set_result,
         nops  |-> 1,
         logs  |-> <<format_log_chat(
                        IF set_result.tag = "Ok" THEN "Saved alias"
                        ELSE "Failed to save alias to DB", chat_id)>>]

\* mutant: a failed read is issued a second time
get_sticker_id_retry(db, chat_id, alias, net) ==
    LET key == get_aliases_key(chat_id)
        rt == roundtrip(db, net, hget(db, key, alias))
        set_result == from_redis_string(rt.rep)
    IN  [db    |-> rt.db,
         ret   |-> IF set_result.tag = "Ok" THEN Some(set_result.val) ELSE None,
         store |-> set_result,
         nops  |-> IF net = "ok" THEN 1 ELSE 2,
         logs  |-> <<format_log_chat(
                        IF set_result.tag = "Ok" THEN "Retrieved by alias"
                        ELSE "Failed find alias in DB", chat_id)>>]

get_sticker_id(db, chat_id, alias, net) ==
    LET key == get_aliases_key(chat_id)
        rt == roundtrip(db, net, hget(db, key, alias))
        set_result == from_redis_string(rt.rep)
    IN  [db    |-> rt.db,
         ret   |-> IF set_result.tag = "Ok" THEN Some(set_result.val) ELSE None,
         store |-> set_result,
         nops  |-> 1,
         logs  |-> <<format_log_chat(
                        IF set_result.tag = "Ok" THEN "Retrieved by alias"
                        ELSE "Failed find alias in DB", chat_id)>>]

\* mutant: the delete addresses the chat key without the alias suffix
remove_alias_chat_key(db, chat_id, alias, net) ==
    LET key == get_chat_key(chat_id)
        rt == roundtrip(db, net, hdel(db, key, alias))
        del_result == from_redis_unit(rt.rep)
    IN  [db    |-> rt.db,
         ret   |-> Unit,
         store |-> del_result,
         nops  |-> 1,
         logs  |-> <<format_log_chat(
                        IF del_result.tag = "Ok" THEN "Removed alias"
                        ELSE "Failed to remove alias from DB", chat_id)>>]

\* mutant: the result of the delete is handed to the caller
remove_alias_propagate(db, chat_id, alias, net) ==
    LET key == get_aliases_key(chat_id)
        rt == roundtrip(db, net, hdel(db, key, alias))
        del_result == from_redis_unit(rt.rep)
    IN  [db    |-> rt.db,
         ret   |-> IF del_result.tag = "Ok" THEN Unit ELSE Err("RedisError"),
         store |-> del_result,
         nops  |-> 1,
         logs  |-> <<format_log_chat(
                        IF del_result.tag = "Ok" THEN "Removed alias"
                        ELSE "Failed to remove alias from DB", chat_id)>>]

\* mutant: the number of removed fields is read and zero is logged as a failure
remove_alias_counted(db, chat_id, alias, net) ==
    LET key == get_aliases_key(chat_id)
        rt == roundtrip(db, net, hdel(db, key, alias))
        del_result == from_redis_i64(rt.rep)
        removed == del_result.tag = "Ok" /\ del_result.val > 0
    IN  [db    |-> rt.db,
         ret   |-> Unit,
         store |-> del_result,
         nops  |-> 1,
         logs  |-> <<format_log_chat(
                        IF removed THEN "Removed alias"
                        ELSE "Failed to remove alias from DB", chat_id)>>]

remove_alias(db, chat_id, alias, net) ==
    LET key == get_aliases_key(chat_id)
        rt == roundtrip(db, net, hdel(db, key, alias))
        del_result == from_redis_unit(rt.rep)
    IN  [db    |-> rt.db,
         ret   |-> Unit,
         store |-> del_result,
         nops  |-> 1,
         logs  |-> <<format_log_chat(
                        IF del_result.tag = "Ok" THEN "Removed alias"
                        ELSE "Failed to remove alias from DB", chat_id)>>]

(***************************************************************************)
(* Dialogue store.                                                         *)
(***************************************************************************)
\* mutant: the record is written into the alias hash of the chat
update_dialogue_alias_key(db, chat_id, from_id, dialogue, net) ==
    LET key == get_aliases_key(chat_id)
        field == get_from_field(from_id)
        value == serde_json_to_string(dialogue)
    IN  IF value.tag = "Err"
        THEN [db    |-> db,
              ret   |-> Err("SerdeError"),
              store |-> None,
              nops  |-> 0,
              logs  |-> <<format_log_chat("Failed to serialize dialogue", chat_id)>>]
        ELSE LET rt == roundtrip(db, net, hset(db, key, field, value.val))
                 set_result == from_redis_unit(rt.rep)
             IN  [db    |-> rt.db,
                  ret   |-> IF set_result.tag = "Ok" THEN Ok(Unit)
                            ELSE Err("RedisError"),
                  store |-> set_result,
                  nops  |-> 1,
                  logs  |-> <<format_log_chat(
                                IF set_result.tag = "Ok" THEN "Saved dialogue"
                                ELSE "Failed to save dialogue to DB", chat_id)>>]

\* mutant: a value that does not serialize is stored as the empty text
\* before the error is returned
update_dialogue_default(db, chat_id, from_id, dialogue, net) ==
    LET key == get_dialogues_key(chat_id)
        field == get_from_field(from_id)
        value == serde_json_to_string(dialogue)
        text == IF value.tag = "Err" THEN <<>> ELSE value.val
        rt == roundtrip(db, net, hset(db, key, field, text))
        set_result == from_redis_unit(rt.rep)
    IN  [db    |-> rt.db,
         ret   |-> IF value.tag = "Err" THEN Err("SerdeError")
                   ELSE IF set_result.tag = "Ok" THEN Ok(Unit)
                   ELSE Err("RedisError"),
         store |-> set_result,
         nops  |-> 1,
         logs  |-> <<format_log_chat(
                        IF set_result.tag = "Ok" THEN "Saved dialogue"
                        ELSE "Failed to save dialogue to DB", chat_id)>>]

\* mutant: a failed write is followed by a delete of the field
update_dialogue_clear(db, chat_id, from_id, dialogue, net) ==
    LET key == get_dialogues_key(chat_id)
        field == get_from_field(from_id)
        value == serde_json_to_string(dialogue)
    IN  IF value.tag = "Err"
        THEN [db    |-> db,
              ret   |-> Err("SerdeError"),
              store |-> None,
              nops  |-> 0,
              logs  |-> <<format_log_chat("Failed to serialize dialogue", chat_id)>>]
        ELSE LET rt == roundtrip(db, net, hset(db, key, field, value.val))
                 set_result == from_redis_unit(rt.rep)
             IN  [db    |-> IF set_result.tag = "Ok" THEN rt.db
                            ELSE hdel(db, key, field).db,
                  ret   |-> IF set_result.tag = "Ok" THEN Ok(Unit)
                            ELSE Err("RedisError"),
                  store |-> set_result,
                  nops  |-> IF set_result.tag = "Ok" THEN 1 ELSE 2,
                  logs  |-> <<format_log_chat(
                                IF set_result.tag = "Ok" THEN "Saved dialogue"
                                ELSE "Failed to save dialogue to DB", chat_id)>>]

update_dialogue(db, chat_id, from_id, dialogue, net) ==
    LET key == get_dialogues_key(chat_id)
        field == get_from_field(from_id)
        value == serde_json_to_string(dialogue)
    IN  IF value.tag = "Err"
        THEN [db    |-> db,
              ret   |-> Err("SerdeError"),
              store |-> None,
              nops  |-> 0,
              logs  |-> <<format_log_chat("Failed to serialize dialogue", chat_id)>>]
        ELSE LET rt == roundtrip(db, net, hset(db, key, field, value.val))
                 set_result == from_redis_unit(rt.rep)
             IN  [db    |-> rt.db,
                  ret   |-> IF set_result.tag = "Ok" THEN Ok(Unit)
                            ELSE Err("RedisError"),
                  store |-> set_result,
                  nops  |-> 1,
                  logs  |-> <<format_log_chat(
                                IF set_result.tag = "Ok" THEN "Saved dialogue"
                                ELSE "Failed to save dialogue to DB", chat_id)>>]

\* mutant: the reply is converted to String, as get_sticker_id does, so a
\* missing field is a conversion error
get_dialogue_string(db, chat_id, from_id, D, net) ==
    LET key == get_dialogues_key(chat_id)
        field == get_from_field(from_id)
        rt == roundtrip(db, net, hget(db, key, field))
        value == from_redis_string(rt.rep)
    IN  [db    |-> rt.db,
         ret   |-> IF value.tag = "Err" THEN Err("RedisError")
                   ELSE LET de == serde_json_from_str(D, value.val)
                        IN  IF de.tag = "Ok" THEN Ok(Some(de.val))
                            ELSE Err("SerdeError"),
         store |-> value,
         nops  |-> 1,
         logs  |-> <<>>]

\* mutant: a record that does not decode is reported as no record
get_dialogue_swallow(db, chat_id, from_id, D, net) ==
    LET key == get_dialogues_key(chat_id)
        field == get_from_field(from_id)
        rt == roundtrip(db, net, hget(db, key, field))
        value == from_redis_opt_string(rt.rep)
    IN  [db    |-> rt.db,
         ret   |-> IF value.tag = "Err" THEN Err("RedisError")
                   ELSE IF value.val.tag = "None" THEN Ok(None)
                   ELSE LET de == serde_json_from_str(D, value.val.val)
                        IN  IF de.tag = "Ok" THEN Ok(Some(de.val))
                            ELSE Ok(None),
         store |-> value,
         nops  |-> 1,
         logs  |-> <<>>]

\* mutant: a decoding failure is mapped to the store error
get_dialogue_redis_tag(db, chat_id, from_id, D, net) ==
    LET key == get_dialogues_key(chat_id)
        field == get_from_field(from_id)
        rt == roundtrip(db, net, hget(db, key, field))
        value == from_redis_opt_string(rt.rep)
    IN  [db    |-> rt.db,
         ret   |-> IF value.tag = "Err" THEN Err("RedisError")
                   ELSE IF value.val.tag = "None" THEN Ok(None)
                   ELSE LET de == serde_json_from_str(D, value.val.val)
                        IN  IF de.tag = "Ok" THEN Ok(Some(de.val))
                            ELSE Err("RedisError"),
         store |-> value,
         nops  |-> 1,
         logs  |-> <<>>]

\* mutant: a record that does not decode is deleted
get_dialogue_repair(db, chat_id, from_id, D, net) ==
    LET key == get_dialogues_key(chat_id)
        field == get_from_field(from_id)
        rt == roundtrip(db, net, hget(db, key, field))
        value == from_redis_opt_string(rt.rep)
        ret == IF value.tag = "Err" THEN Err("RedisError")
               ELSE IF value.val.tag = "None" THEN Ok(None)
               ELSE LET de == serde_json_from_str(D, value.val.val)
                    IN  IF de.tag = "Ok" THEN Ok(Some(de.val))
                        ELSE Err("SerdeError")
    IN  [db    |-> IF ret = Err("SerdeError") THEN hdel(rt.db, key, field).db
                   ELSE rt.db,
         ret   |-> ret,
         store |-> value,
         nops  |-> 1,
         logs  |-> <<>>]

get_dialogue(db, chat_id, from_id, D, net) ==
    LET key == get_dialogues_key(chat_id)
        field == get_from_field(from_id)
        rt == roundtrip(db, net, hget(db, key, field))
        value == from_redis_opt_string(rt.rep)
    IN  [db    |-> rt.db,
         ret   |-> IF value.tag = "Err" THEN Err("RedisError")
                   ELSE IF value.val.tag = "None" THEN Ok(None)
                   ELSE LET de == serde_json_from_str(D, value.val.val)
                        IN  IF de.tag = "Ok" THEN Ok(Some(de.val))
                            ELSE Err("SerdeError"),
         store |-> value,
         nops  |-> 1,
         logs  |-> <<>>]

\* mutant: the delete count is not looked at
remove_dialogue_any_count(db, chat_id, from_id, net) ==
    LET key == get_dialogues_key(chat_id)
        field == get_from_field(from_id)
        rt == roundtrip(db, net, hdel(db, key, field))
        del_res == from_redis_i64(rt.rep)
    IN  [db    |-> rt.db,
         ret   |-> IF del_res.tag = "Err" THEN Err("RedisError") ELSE Ok(Unit),
         store |-> del_res,
         nops  |-> 1,
         logs  |-> <<>>]

\* mutant: the outcome of the delete is logged
remove_dialogue_logged(db, chat_id, from_id, net) ==
    LET key == get_dialogues_key(chat_id)
        field == get_from_field(from_id)
        rt == roundtrip(db, net, hdel(db, key, field))
        res == from_redis_i64(rt.rep)
    IN  [db    |-> rt.db,
         ret   |-> IF res.tag = "Err" THEN Err("RedisError")
                   ELSE IF res.val = 0 THEN Err("DialogueNotFound")
                   ELSE Ok(Unit),
         store |-> res,
         nops  |-> 1,
         logs  |-> <<format_log_chat("Removed dialogue", chat_id)>>]

\* mutant: the whole dialogue hash of the chat is deleted
remove_dialogue_whole_hash(db, chat_id, from_id, net) ==
    LET key == get_dialogues_key(chat_id)
        field == get_from_field(from_id)
        rt == roundtrip(db, net, hdel(db, key, field))
        res == from_redis_i64(rt.rep)
    IN  [db    |-> [k \in (DOMAIN rt.db) \ {key} |-> rt.db[k]],
         ret   |-> IF res.tag = "Err" THEN Err("RedisError")
                   ELSE IF res.val = 0 THEN Err("DialogueNotFound")
                   ELSE Ok(Unit),
         store |-> res,
         nops  |-> 1,
         logs  |-> <<>>]

remove_dialogue(db, chat_id, from_id, net) ==
    LET key == get_dialogues_key(chat_id)
        field == get_from_field(from_id)
        rt == roundtrip(db, net, hdel(db, key, field))
        del_res == from_redis_i64(rt.rep)
    IN  [db    |-> rt.db,
         ret   |-> IF del_res.tag = "Err" THEN Err("RedisError")
                   ELSE IF del_res.val = 0 THEN Err("DialogueNotFound")
                   ELSE Ok(Unit),
         store |-> del_res,
         nops  |-> 1,
         logs  |-> <<>>]

(***************************************************************************)
(* State.                                                                  *)
(***************************************************************************)
VARIABLES
    redis,      \* the server: key -> hash (field -> text)
    last,       \* the most recent completed call of a public operation
    aliasHist,  \* per (chat, alias): sticker id of the latest successful
                \* set_alias, or that none succeeded / a remove_alias
                \* succeeded after it
    dlgHist,    \* per (chat, user): value of the latest successful
                \* update_dialogue, or that none succeeded / it was removed
    sa,         \* the set_aliases call in progress: its loop position and
                \* the numbers of store commands and log lines so far
    keys        \* inputs and outputs of the key namespace builder

vars == <<redis, last, aliasHist, dlgHist, sa, keys>>

Never == [tag |-> "Never"]
Removed == [tag |-> "Removed"]

NoCall ==
    [op |-> "none", chat |-> 0, name |-> <<>>, arg |-> <<>>, ty |-> "",
     net |-> "ok", ret |-> Unit, store |-> "None", nops |-> 0, logs |-> <<>>]

Call(op, chat_id, name, arg, ty, net, r) ==
    [op |-> op, chat |-> chat_id, name |-> name, arg |-> arg, ty |-> ty,
     net |-> net, ret |-> r.ret, store |-> r.store.tag, nops |-> r.nops,
     logs |-> r.logs]

SaIdle ==
    [pc |-> "idle", chat |-> 0, sticker |-> <<>>, given |-> <<>>,
     todo |-> <<>>, tried |-> <<>>, failed |-> FALSE, alone |-> TRUE,
     nops |-> 0, nlogs |-> 0]

KeysIdle ==
    [c1 |-> 0, c2 |-> 0, u1 |-> None, u2 |-> None, done |-> FALSE,
     a1 |-> <<>>, d1 |-> <<>>, a2 |-> <<>>, d2 |-> <<>>,
     f1 |-> <<>>, f2 |-> <<>>, fnone |-> <<>>]

AliasSeqs(c) == UNION {[1..n -> AliasesOf(c)] : n \in 0..MaxAliases}

Range(s) == {s[i] : i \in 1..Len(s)}

InitStore ==
    /\ redis = EmptyDb
    /\ last = NoCall
    /\ aliasHist = [p \in AliasPairs |-> Never]
    /\ dlgHist = [p \in DialoguePairs |-> Never]
    /\ sa = SaIdle

Init ==
    /\ InitStore
    /\ keys = KeysIdle

\* Earlier calls that left both stores filled: set_alias(c, a, s) and
\* update_dialogue(c, u, d), all of them successful.
SeedAliasCalls ==
    << <<1, <<"f", "o", "o">>, <<"X">> >>,
       <<1, <<"1">>, <<"Y">> >>,
       <<-1, <<"f", "o", "o">>, <<"Y">> >> >>

SeedDialogueCalls ==
    << <<1, None, DStart>>,
       <<1, Some(1), DWait(7)>>,
       <<-1, Some(1), DStart>> >>

RECURSIVE AfterSetAliasCalls(_, _)
AfterSetAliasCalls(db, calls) ==
    IF calls = <<>> THEN db
    ELSE LET c == Head(calls)
         IN  AfterSetAliasCalls(set_alias(db, c[1], c[2], c[3], "ok").db, Tail(calls))

RECURSIVE AfterUpdateDialogueCalls(_, _)
AfterUpdateDialogueCalls(db, calls) ==
    IF calls = <<>> THEN db
    ELSE LET c == Head(calls)
         IN  AfterUpdateDialogueCalls(update_dialogue(db, c[1], c[2], c[3], "ok").db,
                                      Tail(calls))

SeedDb == AfterUpdateDialogueCalls(AfterSetAliasCalls(EmptyDb, SeedAliasCalls),
                                   SeedDialogueCalls)

SeedAliasHist ==
    [p \in AliasPairs |->
        IF \E i \in DOMAIN SeedAliasCalls :
                <<SeedAliasCalls[i][1], SeedAliasCalls[i][2]>> = p
        THEN Some((CHOOSE c \in Range(SeedAliasCalls) : <<c[1], c[2]>> = p)[3])
        ELSE Never]

SeedDlgHist ==
    [p \in DialoguePairs |->
        IF \E i \in DOMAIN SeedDialogueCalls :
                <<SeedDialogueCalls[i][1], SeedDialogueCalls[i][2]>> = p
        THEN Some((CHOOSE c \in Range(SeedDialogueCalls) : <<c[1], c[2]>> = p)[3])
        ELSE Never]

\* the connection of a server whose store holds aliases and dialogues
InitFrame ==
    /\ redis = SeedDb
    /\ last = NoCall
    /\ aliasHist = SeedAliasHist
    /\ dlgHist = SeedDlgHist
    /\ sa = SaIdle
    /\ keys = KeysIdle

\* a write of alias a in chat c by another caller while set_aliases runs
Touch(c, a) ==
    IF sa.pc # "idle" /\ sa.chat = c /\ a \in Range(sa.given)
    THEN [sa EXCEPT !.alone = FALSE]
    ELSE sa

(***************************************************************************)
(* Alias store calls.                                                      *)
(***************************************************************************)
SetAlias ==
    \E c \in ChatIds, s \in StickerIds, net \in NetOutcomes : \E a \in AliasesOf(c) :
        LET r == set_alias(redis, c, a, s, net)
        IN  /\ redis' = r.db
            /\ last' = Call("set_alias", c, a, s, "", net, r)
            /\ aliasHist' = IF net = "ok"
                            THEN [aliasHist EXCEPT ![<<c, a>>] = Some(s)]
                            ELSE aliasHist
            /\ sa' = Touch(c, a)
            /\ UNCHANGED <<dlgHist, keys>>

GetStickerId ==
    \E c \in ChatIds, net \in NetOutcomes : \E a \in AliasesOf(c) :
        LET r == get_sticker_id(redis, c, a, net)
        IN  /\ redis' = r.db
            /\ last' = Call("get_sticker_id", c, a, <<>>, "", net, r)
            /\ UNCHANGED <<aliasHist, dlgHist, sa, keys>>

RemoveAlias ==
    \E c \in ChatIds, net \in NetOutcomes : \E a \in AliasesOf(c) :
        LET r == remove_alias(redis, c, a, net)
        IN  /\ redis' = r.db
            /\ last' = Call("remove_alias", c, a, <<>>, "", net, r)
            /\ aliasHist' = IF net = "ok"
                            THEN [aliasHist EXCEPT ![<<c, a>>] = Removed]
                            ELSE aliasHist
            /\ sa' = Touch(c, a)
            /\ UNCHANGED <<dlgHist, keys>>

(***************************************************************************)
(* set_aliases: the for loop, one set_alias per iteration.  Calls of other *)
(* clients of the server may take place between two iterations.            *)
(***************************************************************************)
SetAliasesCall ==
    \E c \in ChatIds, s \in StickerIds : \E as \in AliasSeqs(c) :
        /\ sa.pc \in {"idle", "done"}
        /\ sa' = [pc |-> "run", chat |-> c, sticker |-> s, given |-> as,
                  todo |-> as, tried |-> <<>>, failed |-> FALSE, alone |-> TRUE,
                  nops |-> 0, nlogs |-> 0]
        /\ UNCHANGED <<redis, last, aliasHist, dlgHist, keys>>

\* mutant: the loop is left at the first alias whose write fails
SetAliasesStep_stop ==
    \E net \in NetOutcomes :
        /\ sa.pc = "run"
        /\ sa.todo # <<>>
        /\ LET alias == Head(sa.todo)
               r == set_alias(redis, sa.chat, alias, sa.sticker, net)
           IN  /\ redis' = r.db
               /\ last' = Call("set_alias", sa.chat, alias, sa.sticker, "", net, r)
               /\ aliasHist' = IF net = "ok"
                               THEN [aliasHist EXCEPT ![<<sa.chat, alias>>] =
                                                        Some(sa.sticker)]
                               ELSE aliasHist
               /\ sa' = [sa EXCEPT !.todo = IF net = "ok" THEN Tail(sa.todo)
                                            ELSE <<>>,
                                   !.tried = Append(sa.tried, alias),
                                   !.failed = sa.failed \/ net # "ok",
                                   !.nops = sa.nops + r.nops,
                                   !.nlogs = sa.nlogs + Len(r.logs)]
        /\ UNCHANGED <<dlgHist, keys>>

\* mutant: all remaining aliases are written in one step
SetAliasesStep_all ==
    \E net \in NetOutcomes :
        /\ sa.pc = "run"
        /\ sa.todo # <<>>
        /\ LET alias == Head(sa.todo)
               r == set_alias(redis, sa.chat, alias, sa.sticker, net)
               r2 == set_alias(r.db, sa.chat, sa.todo[Len(sa.todo)], sa.sticker, net)
           IN  /\ redis' = r2.db
               /\ last' = Call("set_alias", sa.chat, alias, sa.sticker, "", net, r)
               /\ aliasHist' = IF net = "ok"
                               THEN [p \in AliasPairs |->
                                        IF p[1] = sa.chat /\ p[2] \in Range(sa.todo)
                                        THEN Some(sa.sticker) ELSE aliasHist[p]]
                               ELSE aliasHist
               /\ sa' = [sa EXCEPT !.todo = <<>>,
                                   !.tried = sa.given,
                                   !.failed = sa.failed \/ net # "ok",
                                   !.nops = sa.nops + Len(sa.todo),
                                   !.nlogs = sa.nlogs + Len(sa.todo)]
        /\ UNCHANGED <<dlgHist, keys>>

SetAliasesStep ==
    \E net \in NetOutcomes :
        /\ sa.pc = "run"
        /\ sa.todo # <<>>
        /\ LET alias == Head(sa.todo)
               r == set_alias(redis, sa.chat, alias, sa.sticker, net)
           IN  /\ redis' = r.db
               /\ last' = Call("set_alias", sa.chat, alias, sa.sticker, "", net, r)
               /\ aliasHist' = IF net = "ok"
                               THEN [aliasHist EXCEPT ![<<sa.chat, alias>>] =
                                                        Some(sa.sticker)]
                               ELSE aliasHist
               /\ sa' = [sa EXCEPT !.todo = Tail(sa.todo),
                                   !.tried = Append(sa.tried, alias),
                                   !.failed = sa.failed \/ net # "ok",
                                   !.nops = sa.nops + r.nops,
                                   !.nlogs = sa.nlogs + Len(r.logs)]
        /\ UNCHANGED <<dlgHist, keys>>

SetAliasesReturn ==
    /\ sa.pc = "run"
    /\ sa.todo = <<>>
    /\ sa' = [sa EXCEPT !.pc = "done"]
    /\ UNCHANGED <<redis, last, aliasHist, dlgHist, keys>>

(***************************************************************************)
(* Dialogue store calls.                                                   *)
(***************************************************************************)
UpdateDialogue ==
    \E c \in ChatIds, d \in DialogueValues, net \in NetOutcomes : \E u \in FromIdsOf(c) :
        LET r == update_dialogue(redis, c, u, d, net)
        IN  /\ redis' = r.db
            /\ last' = Call("update_dialogue", c, u, d, d.ty, net, r)
            /\ dlgHist' = IF r.ret.tag = "Ok"
                          THEN [dlgHist EXCEPT ![<<c, u>>] = Some(d)]
                          ELSE dlgHist
            /\ UNCHANGED <<aliasHist, sa, keys>>

GetDialogue ==
    \E c \in ChatIds, D \in ReadTypes, net \in NetOutcomes : \E u \in FromIdsOf(c) :
        LET r == get_dialogue(redis, c, u, D, net)
        IN  /\ redis' = r.db
            /\ last' = Call("get_dialogue", c, u, <<>>, D, net, r)
            /\ UNCHANGED <<aliasHist, dlgHist, sa, keys>>

RemoveDialogue ==
    \E c \in ChatIds, net \in NetOutcomes : \E u \in FromIdsOf(c) :
        LET r == remove_dialogue(redis, c, u, net)
        IN  /\ redis' = r.db
            /\ last' = Call("remove_dialogue", c, u, <<>>, "", net, r)
            /\ dlgHist' = IF r.ret.tag = "Ok"
                          THEN [dlgHist EXCEPT ![<<c, u>>] = Removed]
                          ELSE dlgHist
            /\ UNCHANGED <<aliasHist, sa, keys>>

(***************************************************************************)
(* The key namespace builder applied to two chat ids and two user ids.     *)
(***************************************************************************)
InitKeys ==
    /\ InitStore
    /\ \E c1 \in IdSamples, c2 \in IdSamples, u1 \in OptIdSamples, u2 \in OptIdSamples :
            keys = [KeysIdle EXCEPT !.c1 = c1, !.c2 = c2, !.u1 = u1, !.u2 = u2]

DeriveKeys ==
    /\ ~keys.done
    /\ keys' = [keys EXCEPT !.done = TRUE,
                            !.a1 = get_aliases_key(keys.c1),
                            !.d1 = get_dialogues_key(keys.c1),
                            !.a2 = get_aliases_key(keys.c2),
                            !.d2 = get_dialogues_key(keys.c2),
                            !.f1 = get_from_field(keys.u1),
                            !.f2 = get_from_field(keys.u2),
                            !.fnone = get_from_field(None)]
    /\ UNCHANGED <<redis, last, aliasHist, dlgHist, sa>>

(***************************************************************************)
(* Specifications.                                                         *)
(***************************************************************************)
NextAlias ==
    \/ SetAlias
    \/ GetStickerId
    \/ RemoveAlias

\* one client inside set_aliases, other clients writing aliases meanwhile
NextSetAliases ==
    \/ SetAliasesCall
    \/ SetAliasesStep
    \/ SetAliasesReturn
    \/ SetAlias

NextDialogue ==
    \/ UpdateDialogue
    \/ GetDialogue
    \/ RemoveDialogue

NextKeys == DeriveKeys

Next ==
    \/ NextAlias
    \/ NextSetAliases
    \/ NextDialogue

\* one client working on one of the two stores: its calls follow one another,
\* and set_aliases runs to its return before the next call
NextSession ==
    \/ /\ last.op \notin {"update_dialogue", "get_dialogue", "remove_dialogue"}
       /\ \/ SetAliasesCall
          \/ SetAliasesStep
          \/ SetAliasesReturn
          \/ (sa.pc # "run" /\ NextAlias)
    \/ /\ last.op \notin {"set_alias", "get_sticker_id", "remove_alias"}
       /\ sa.pc = "idle"
       /\ NextDialogue

\* a set_aliases call with the reads and writes of other clients around it
NextConcurrent ==
    \/ NextSetAliases
    \/ GetStickerId

\* calls on one store while the other store holds the records it was left with
NextFrame ==
    \/ (dlgHist = SeedDlgHist /\ NextAlias)
    \/ (aliasHist = SeedAliasHist /\ NextDialogue)

Spec == Init /\ [][Next]_vars

SpecAlias == Init /\ [][NextAlias]_vars

SpecSetAliases == Init /\ [][NextSetAliases]_vars

\* a client inside set_aliases goes on to its next iteration and returns
SpecSetAliasesFair ==
    SpecSetAliases /\ WF_vars(SetAliasesStep) /\ WF_vars(SetAliasesReturn)

SpecDialogue == Init /\ [][NextDialogue]_vars

SpecSession == Init /\ [][NextSession]_vars
SpecConcurrent == Init /\ [][NextConcurrent]_vars
SpecFrame == InitFrame /\ [][NextFrame]_vars
SpecKeys == InitKeys /\ [][NextKeys]_vars

(***************************************************************************)
(* Properties.                                                             *)
(***************************************************************************)
LastPair == <<last.chat, last.name>>

\* what a get_dialogue::<D> of (c, u) returns when the read succeeds
ReadBack(db, c, u, D) == get_dialogue(db, c, u, D, "ok").ret

\* C1: last write wins for aliases: when the read succeeds, get_sticker_id(c, a)
\* returns Some(v) for the v of the most recent successful set_alias(c, a, v)
\* that no successful remove_alias(c, a) followed.
C1_LastWriteWins ==
    (/\ last.op = "get_sticker_id"
     /\ last.net = "ok"
     /\ aliasHist[LastPair].tag = "Some")
        => last.ret = Some(aliasHist[LastPair].val)

\* an alias set twice to different sticker ids has just been read
C1_Witness ==
    /\ last.op = "get_sticker_id"
    /\ last.net = "ok"
    /\ aliasHist[LastPair] = Some(<<"Y">>)
    /\ last.ret = Some(<<"Y">>)
    /\ \E p \in AliasPairs : aliasHist[p] = Some(<<"X">>)

\* C2: after a successful remove_alias(c, a) with no set_alias(c, a, _) after
\* it, every get_sticker_id(c, a) returns None.
C2_RemovedAliasAbsent ==
    (/\ last.op = "get_sticker_id"
     /\ aliasHist[LastPair] = Removed)
        => last.ret = None

\* a removed alias has just been read, while another alias is still mapped
C2_Witness ==
    /\ last.op = "get_sticker_id"
    /\ last.net = "ok"
    /\ aliasHist[LastPair] = Removed
    /\ last.ret = None
    /\ \E p \in AliasPairs : aliasHist[p].tag = "Some"

\* C3: dialogue round trip: a get_dialogue(c, u), at the type of the value
\* the latest successful update_dialogue(c, u, s) wrote and with no removal
\* since, returns Ok(Some(s)).
C3_DialogueRoundTrip ==
    (/\ last.op = "get_dialogue"
     /\ last.net = "ok"
     /\ dlgHist[LastPair].tag = "Some"
     /\ dlgHist[LastPair].val.ty = last.ty)
        => last.ret = Ok(Some(dlgHist[LastPair].val))

\* a record carrying data has just been read back while the other records of
\* the chat hold other values
C3_Witness ==
    /\ last.op = "get_dialogue"
    /\ last.net = "ok"
    /\ dlgHist[LastPair] = Some(DWait(7))
    /\ last.ty = "Dialogue"
    /\ last.ret = Ok(Some(DWait(7)))
    /\ \E p \in DialoguePairs : p[1] = last.chat /\ dlgHist[p] = Some(DStart)

\* C4: remove_dialogue(c, u) returns Ok exactly when the delete succeeded and
\* a record of (c, u) existed, DialogueNotFound exactly when the delete
\* succeeded and none existed, RedisError when the delete failed; after Ok a
\* get_dialogue(c, u) returns Ok(None).
C4_RemoveDialogueResult ==
    [][last'.op = "remove_dialogue" =>
        LET c == last'.chat
            u == last'.name
            existed == dlgHist[<<c, u>>].tag = "Some"
        IN  /\ last'.ret = Ok(Unit) <=> (last'.net = "ok" /\ existed)
            /\ last'.ret = Err("DialogueNotFound") <=> (last'.net = "ok" /\ ~existed)
            /\ last'.ret = Err("RedisError") <=> last'.net = "err"
            /\ last'.ret = Ok(Unit) =>
                    \A D \in ReadTypes : ReadBack(redis', c, u, D) = Ok(None)
    ]_vars

\* a record has just been removed with Ok
C4_Witness ==
    /\ last.op = "remove_dialogue"
    /\ last.ret = Ok(Unit)
    /\ dlgHist[LastPair] = Removed

\* C5: get_dialogue(c, u) of a pair no update_dialogue ever succeeded for
\* returns Ok(None) when the read succeeds.
C5_NeverWrittenIsNone ==
    (/\ last.op = "get_dialogue"
     /\ last.net = "ok"
     /\ dlgHist[LastPair] = Never)
        => last.ret = Ok(None)

\* a never-written pair has just been read in a chat that holds a record of
\* another user
C5_Witness ==
    /\ last.op = "get_dialogue"
    /\ last.net = "ok"
    /\ dlgHist[LastPair] = Never
    /\ last.ret = Ok(None)
    /\ \E p \in DialoguePairs : p[1] = last.chat /\ dlgHist[p].tag = "Some"

\* C6: user isolation: an update_dialogue or remove_dialogue of (c, u) leaves
\* what get_dialogue returns for every other user reference of chat c as it
\* was.
C6_UserIsolation ==
    [][last'.op \in {"update_dialogue", "remove_dialogue"} =>
        \* (a call that left the whole store as it was changed no read)
        \/ redis' = redis
        \/ \A u2 \in FromIdsOf(last'.chat) \ {last'.name} : \A D \in ReadTypes :
              ReadBack(redis', last'.chat, u2, D) = ReadBack(redis, last'.chat, u2, D)
    ]_vars

\* a user's record has just been written while None and another user of the
\* chat hold records with other values
C6_Witness ==
    /\ last.op = "update_dialogue"
    /\ last.ret = Ok(Unit)
    /\ last.chat = 1
    /\ last.name = Some(1)
    /\ dlgHist[<<last.chat, None>>].tag = "Some"
    /\ dlgHist[<<last.chat, None>>].val # last.arg
    /\ dlgHist[<<last.chat, Some(2)>>].tag = "Some"
    /\ dlgHist[<<last.chat, Some(2)>>].val # last.arg

\* "chat:<decimal id><suffix>"
IsChatKey(k, chat_id, suffix) ==
    /\ HasPrefix(k, <<"c", "h", "a", "t", ":">>)
    /\ HasSuffix(k, suffix)
    /\ Len(k) > 5 + Len(suffix)
    /\ parse_i64(SubSeq(k, 6, Len(k) - Len(suffix))) = Ok(chat_id)

\* C7: key namespacing is collision-free: the alias key of a chat is
\* "chat:<decimal id>aliases", its dialogue key "chat:<decimal id>dialogues",
\* the two differ, and the four keys of two different chats are pairwise
\* distinct.
C7_KeysDistinct ==
    keys.done =>
        /\ IsChatKey(keys.a1, keys.c1, <<"a", "l", "i", "a", "s", "e", "s">>)
        /\ IsChatKey(keys.d1, keys.c1, <<"d", "i", "a", "l", "o", "g", "u", "e", "s">>)
        /\ keys.a1 # keys.d1
        /\ keys.c1 # keys.c2 =>
                Cardinality({keys.a1, keys.d1, keys.a2, keys.d2}) = 4

\* the keys of a chat and of the chat whose id has its digits as a prefix
\* and a negative sign have been derived
C7_Witness ==
    /\ keys.done
    /\ keys.c1 = 12
    /\ keys.c2 = -120
    /\ keys.a2 = <<"c", "h", "a", "t", ":", "-", "1", "2", "0",
                   "a", "l", "i", "a", "s", "e", "s">>

\* C8: the field of None is "NO_ID", the field of Some(i) is the decimal form
\* of i, different user references have different fields, and "NO_ID" is not
\* the decimal form of an integer.
C8_FromFieldInjective ==
    keys.done =>
        /\ keys.fnone = <<"N", "O", "_", "I", "D">>
        /\ parse_i64(keys.fnone).tag = "Err"
        /\ \A r \in {<<keys.u1, keys.f1>>, <<keys.u2, keys.f2>>} :
                IF r[1].tag = "Some"
                THEN parse_i64(r[2]) = Ok(r[1].val) /\ r[2] # keys.fnone
                ELSE r[2] = keys.fnone
        /\ keys.u1 # keys.u2 => keys.f1 # keys.f2

\* the fields of None and of a negative id have been derived
C8_Witness ==
    /\ keys.done
    /\ keys.u1 = None
    /\ keys.u2 = Some(-21)
    /\ keys.f2 = <<"-", "2", "1">>

\* C9: set_aliases attempts one set_alias per element of the sequence, in
\* order, whether or not earlier ones failed; when it returns with every
\* write succeeded and no other write to those aliases, each alias reads
\* back as the sticker id; and every call returns.
C9_SetAliases ==
    /\ [](sa.pc = "run" => sa.tried \o sa.todo = sa.given)
    /\ [](sa.pc = "done" => sa.tried = sa.given)
    /\ []((sa.pc = "done" /\ ~sa.failed /\ sa.alone) =>
            \A a \in Range(sa.given) :
                get_sticker_id(redis, sa.chat, a, "ok").ret = Some(sa.sticker))
    /\ (sa.pc = "run" ~> sa.pc = "done")

\* a call over two different aliases has returned after a failed write
C9_Witness ==
    /\ sa.pc = "done"
    /\ Len(sa.given) = 2
    /\ sa.given[1] # sa.given[2]
    /\ sa.failed
    /\ sa.tried = sa.given

\* C10: an update_dialogue whose value does not serialize returns SerdeError,
\* issues no store command and leaves the whole store as it was.
C10_SerializeFailureNoWrite ==
    [][(last'.op = "update_dialogue" /\ last'.ty = "TupleKeyMap") =>
        /\ last'.ret = Err("SerdeError")
        /\ last'.nops = 0
        /\ redis' = redis
    ]_vars

\* an unserializable value has been refused for a pair that holds a record
C10_Witness ==
    /\ last.op = "update_dialogue"
    /\ last.ty = "TupleKeyMap"
    /\ last.ret = Err("SerdeError")
    /\ dlgHist[LastPair].tag = "Some"

DialogueOps == {"update_dialogue", "get_dialogue", "remove_dialogue"}
AliasOps == {"set_alias", "get_sticker_id", "remove_alias"}

\* the way the dialogue call l failed, given the history before the call
FailureKind(hist, l) ==
    LET h == hist[<<l.chat, l.name>>]
    IN  CASE l.op = "update_dialogue" /\ l.ty = "TupleKeyMap" -> "serialization"
          [] l.op = "update_dialogue" /\ l.ty # "TupleKeyMap" /\ l.net = "err" -> "store"
          [] l.op = "get_dialogue" /\ l.net = "err" -> "store"
          [] l.op = "get_dialogue" /\ l.net = "ok" /\ h.tag = "Some" /\ h.val.ty # l.ty ->
                "deserialization"
          [] l.op = "remove_dialogue" /\ l.net = "err" -> "store"
          [] l.op = "remove_dialogue" /\ l.net = "ok" /\ h.tag # "Some" -> "not-found"
          [] OTHER -> "none"

\* the variant of RedisStorageError each kind of failure is returned as
TagFor(kind) ==
    CASE kind = "serialization" -> "SerdeError"
      [] kind = "deserialization" -> "SerdeError"
      [] kind = "store" -> "RedisError"
      [] kind = "not-found" -> "DialogueNotFound"

\* C12 as stated: every failure of a dialogue call is returned as an error
\* value whose tag alone tells the four kinds of failure apart; so the tag of
\* a deserialization failure is not the tag update_dialogue returns for a
\* value that does not serialize.
C12_FourTags ==
    [][last'.op \in DialogueOps =>
        LET k == FailureKind(dlgHist, last')
        IN  /\ k # "none" => last'.ret.tag = "Err"
            /\ k = "deserialization" =>
                    last'.ret # update_dialogue(redis', last'.chat, last'.name,
                                                DTupleKeyMap, "ok").ret
    ]_vars

\* C12 (amended): every failure of a dialogue call is returned as an error
\* value with one of three tags: SerdeError for a serialization failure (of
\* update_dialogue) and for a deserialization failure (of get_dialogue),
\* RedisError for a store failure, DialogueNotFound for a removal of nothing;
\* a call that did not fail returns Ok.
C12_ThreeTags ==
    [][last'.op \in DialogueOps =>
        LET k == FailureKind(dlgHist, last')
        IN  IF k = "none" THEN last'.ret.tag = "Ok"
            ELSE last'.ret = Err(TagFor(k))
    ]_vars

\* a record written as a Dialogue has just failed to decode as an i64
C12_Witness ==
    /\ last.op = "get_dialogue"
    /\ last.net = "ok"
    /\ last.ty = "i64"
    /\ dlgHist[LastPair] = Some(DStart)
    /\ last.ret = Err("SerdeError")

\* C16: get_dialogue(c, u) returns the store error when the read fails,
\* Ok(None) when the field is absent, Ok(Some(v)) when the stored text
\* decodes to v at the requested type, and SerdeError when it does not.
C16_GetDialogueOutcomes ==
    last.op = "get_dialogue" =>
        LET h == dlgHist[LastPair]
        IN  /\ last.net = "err" => last.ret = Err("RedisError")
            /\ (last.net = "ok" /\ h.tag # "Some") => last.ret = Ok(None)
            /\ (last.net = "ok" /\ h.tag = "Some" /\ h.val.ty = last.ty) =>
                    last.ret = Ok(Some(h.val))
            /\ (last.net = "ok" /\ h.tag = "Some" /\ h.val.ty # last.ty) =>
                    last.ret = Err("SerdeError")

\* a record carrying data has just failed to decode at another type, in a
\* chat where another record was removed
C16_Witness ==
    /\ last.op = "get_dialogue"
    /\ last.net = "ok"
    /\ dlgHist[LastPair] = Some(DWait(7))
    /\ last.ty = "i64"
    /\ last.ret = Err("SerdeError")
    /\ \E p \in DialoguePairs : p[1] = last.chat /\ dlgHist[p] = Removed

\* C20: an update_dialogue(c, u, s) whose store write fails returns RedisError
\* and leaves what get_dialogue(c, u) returns as it was before the call
\* (Ok(None) for a pair never written).
C20_FailedWriteKeepsRecord ==
    [][(/\ last'.op = "update_dialogue"
        /\ last'.ty # "TupleKeyMap"
        /\ last'.net = "err") =>
        /\ last'.ret = Err("RedisError")
        /\ \A D \in ReadTypes :
              /\ ReadBack(redis', last'.chat, last'.name, D)
                    = ReadBack(redis, last'.chat, last'.name, D)
              /\ dlgHist[<<last'.chat, last'.name>>].tag # "Some" =>
                    ReadBack(redis', last'.chat, last'.name, D) = Ok(None)
    ]_vars

\* the write of a new value over an existing record has just failed
C20_Witness ==
    /\ last.op = "update_dialogue"
    /\ last.net = "err"
    /\ last.ret = Err("RedisError")
    /\ dlgHist[LastPair].tag = "Some"
    /\ dlgHist[LastPair].val # last.arg

\* C11: no alias call hands a failure to its caller: set_alias and
\* remove_alias return the unit value whether the store command succeeded or
\* failed, get_sticker_id returns the stored sticker id when the read
\* succeeds and finds one and None both when there is none and when the read
\* fails, and set_aliases goes through all its aliases and returns whether or
\* not a write failed.
C11_AliasFailuresSwallowed ==
    /\ last.op \in {"set_alias", "remove_alias"} => last.ret = Unit
    /\ last.op = "get_sticker_id" =>
            last.ret = IF last.net = "ok" /\ aliasHist[LastPair].tag = "Some"
                       THEN Some(aliasHist[LastPair].val)
                       ELSE None
    /\ sa.pc = "done" => sa.tried = sa.given

\* a remove_alias whose delete failed has returned, after a set_aliases call
\* that returned with a failed write behind it
C11_Witness ==
    /\ last.op = "remove_alias"
    /\ last.net = "err"
    /\ last.store = "Err"
    /\ last.ret = Unit
    /\ sa.pc = "done"
    /\ sa.failed

\* C13 as stated: every call of every public operation issues exactly one
\* store command, never zero and never more than one.
C13_ExactlyOneCommand ==
    /\ last.op # "none" => last.nops = 1
    /\ sa.pc = "done" => sa.nops = 1

\* C13 (amended): set_alias, get_sticker_id, remove_alias, get_dialogue and
\* remove_dialogue issue exactly one store command per call, whether it
\* succeeds or fails (no retry); update_dialogue issues one, or none when the
\* value does not serialize; set_aliases issues one per element of its list,
\* none for an empty list.
C13_CommandsPerCall ==
    /\ last.op \in AliasOps \cup {"get_dialogue", "remove_dialogue"} =>
            last.nops = 1
    /\ last.op = "update_dialogue" =>
            last.nops = IF last.ty = "TupleKeyMap" THEN 0 ELSE 1
    /\ sa.pc \in {"run", "done"} => sa.nops = Len(sa.tried)
    /\ sa.pc = "done" => sa.nops = Len(sa.given)

\* an update_dialogue has returned without a store command
C13_Witness ==
    /\ last.op = "update_dialogue"
    /\ last.ret = Err("SerdeError")
    /\ last.nops = 0
    /\ last.store = "None"

LogMessages(op) ==
    CASE op = "set_alias" -> {"Saved alias", "Failed to save alias to DB"}
      [] op = "get_sticker_id" -> {"Retrieved by alias", "Failed find alias in DB"}
      [] op = "remove_alias" -> {"Removed alias", "Failed to remove alias from DB"}
      [] op = "update_dialogue" -> {"Failed to serialize dialogue", "Saved dialogue",
                                    "Failed to save dialogue to DB"}
      [] OTHER -> {}

\* C14 as stated: every call of every public operation, get_dialogue and
\* remove_dialogue included, emits exactly one log line, which carries the
\* chat id of the call.
C14_OneLogLine ==
    /\ last.op # "none" =>
            /\ Len(last.logs) = 1
            /\ last.logs[1].chat = last.chat
    /\ sa.pc = "done" => sa.nlogs = 1

\* C14 (amended): set_alias, get_sticker_id, remove_alias and update_dialogue
\* emit exactly one log line per call, on success and on failure, built from
\* the chat id of the call; set_aliases emits one line per element of its
\* list; get_dialogue and remove_dialogue emit no log line.
C14_LogLinesPerCall ==
    /\ last.op \in AliasOps \cup {"update_dialogue"} =>
            \E m \in LogMessages(last.op) :
                last.logs = <<format_log_chat(m, last.chat)>>
    /\ last.op \in {"get_dialogue", "remove_dialogue"} => last.logs = <<>>
    /\ sa.pc \in {"run", "done"} => sa.nlogs = Len(sa.tried)
    /\ sa.pc = "done" => sa.nlogs = Len(sa.given)

\* a remove_dialogue that removed a record has returned without a log line
C14_Witness ==
    /\ last.op = "remove_dialogue"
    /\ last.ret = Ok(Unit)
    /\ last.logs = <<>>
    /\ dlgHist[LastPair] = Removed

\* what a get_sticker_id(c, a) of any client returns on the store db
ReadAlias(db, c, a) == get_sticker_id(db, c, a, "ok").ret

\* C15: set_aliases is not atomic.  Each iteration of its loop is one field
\* write: it changes at most the alias at the head of the remaining list and
\* leaves the loop running, so the calls of other clients take place between
\* two iterations; while the call runs with no failed write and no other
\* writer, the aliases already gone through read as the sticker id, whatever
\* the remaining ones read as.
C15_SetAliasesNotAtomic ==
    /\ [][(sa.pc = "run" /\ sa'.tried # sa.tried) =>
            /\ sa'.pc = "run"
            /\ sa'.tried = Append(sa.tried, Head(sa.todo))
            /\ \A p \in AliasPairs :
                    p # <<sa.chat, Head(sa.todo)>> =>
                        ReadAlias(redis', p[1], p[2]) = ReadAlias(redis, p[1], p[2])
         ]_vars
    /\ []((sa.pc = "run" /\ ~sa.failed /\ sa.alone) =>
            \A a \in Range(sa.tried) : ReadAlias(redis, sa.chat, a) = Some(sa.sticker))

\* between the two field writes of a call, another client's write of another
\* sticker id to the second alias has just landed, and a get_sticker_id sees
\* the first alias mapped to the call's sticker id and the second not
C15_Witness ==
    /\ sa.pc = "run"
    /\ Len(sa.tried) = 1
    /\ Len(sa.todo) = 1
    /\ sa.tried[1] # sa.todo[1]
    /\ ~sa.failed
    /\ last.op = "set_alias"
    /\ last.chat = sa.chat
    /\ last.name = sa.todo[1]
    /\ last.arg # sa.sticker
    /\ last.net = "ok"
    /\ ReadAlias(redis, sa.chat, sa.tried[1]) = Some(sa.sticker)
    /\ ReadAlias(redis, sa.chat, sa.todo[1]) = Some(last.arg)

\* C17: a successful remove_alias(c, a) of an alias that is not mapped returns
\* like a removal, with the log line of a removal, and leaves the store as it
\* was, so a second call in a row changes nothing; a successful
\* remove_dialogue(c, u) of a pair that holds no record returns
\* DialogueNotFound.
C17_RemoveAliasIdempotent ==
    /\ [][(/\ last'.op = "remove_alias"
           /\ last'.net = "ok"
           /\ aliasHist[<<last'.chat, last'.name>>].tag # "Some") =>
            /\ redis' = redis
            /\ last'.ret = Unit
            /\ last'.store = "Ok"
            /\ last'.logs = <<format_log_chat("Removed alias", last'.chat)>>
         ]_vars
    /\ [](\A p \in AliasPairs :
            LET once == remove_alias(redis, p[1], p[2], "ok")
                twice == remove_alias(once.db, p[1], p[2], "ok")
            IN  /\ twice.db = once.db
                /\ twice.ret = once.ret
                /\ twice.logs = once.logs)
    /\ [][(/\ last'.op = "remove_dialogue"
           /\ last'.net = "ok"
           /\ dlgHist[<<last'.chat, last'.name>>].tag # "Some") =>
            /\ redis' = redis
            /\ last'.ret = Err("DialogueNotFound")
         ]_vars

\* a remove_alias has returned on an alias that holds no mapping, in a chat
\* whose other alias is mapped and whose dialogue hash holds records
C17_Witness ==
    /\ last.op = "remove_alias"
    /\ last.net = "ok"
    /\ last.ret = Unit
    /\ last.logs = <<format_log_chat("Removed alias", last.chat)>>
    /\ aliasHist[LastPair] = Removed
    /\ ReadAlias(redis, last.chat, last.name) = None
    /\ \E a \in AliasesOf(last.chat) : aliasHist[<<last.chat, a>>].tag = "Some"
    /\ dlgHist = SeedDlgHist

\* the text of field f of hash key in db, if there is one
Field(db, key, f) == IF HasField(db, key, f) THEN Some(db[key][f]) ELSE None

\* db2 differs from db1 in no other field than field f of hash key
OnlyFieldChanged(db1, db2, key, f) ==
    \A k \in (DOMAIN db1) \cup (DOMAIN db2) :
        \A g \in (IF k \in DOMAIN db1 THEN DOMAIN db1[k] ELSE {})
                 \cup (IF k \in DOMAIN db2 THEN DOMAIN db2[k] ELSE {}) :
            <<k, g>> # <<key, f>> => Field(db2, k, g) = Field(db1, k, g)

\* C18: set_alias and remove_alias of (c, a) change no other field of the
\* store than field a of the alias hash of chat c, update_dialogue and
\* remove_dialogue of (c, u) no other field than the field of u in the
\* dialogue hash of chat c; so an alias call changes what no get_dialogue
\* returns, a dialogue call what no get_sticker_id returns, and a call on
\* chat c nothing read in another chat.
C18_Frame ==
    [][\* (a call that left the whole store as it was changed nothing)
       \/ redis' = redis
       \/ /\ last'.op \in {"set_alias", "remove_alias"} =>
                /\ OnlyFieldChanged(redis, redis', get_aliases_key(last'.chat),
                                    last'.name)
                /\ \A q \in DialoguePairs : \A D \in ReadTypes :
                        ReadBack(redis', q[1], q[2], D) = ReadBack(redis, q[1], q[2], D)
                /\ \A p \in AliasPairs :
                        p # <<last'.chat, last'.name>> =>
                            ReadAlias(redis', p[1], p[2]) = ReadAlias(redis, p[1], p[2])
          /\ last'.op \in {"update_dialogue", "remove_dialogue"} =>
                /\ OnlyFieldChanged(redis, redis', get_dialogues_key(last'.chat),
                                    get_from_field(last'.name))
                /\ \A p \in AliasPairs :
                        ReadAlias(redis', p[1], p[2]) = ReadAlias(redis, p[1], p[2])
                /\ \A q \in DialoguePairs : \A D \in ReadTypes :
                        q # <<last'.chat, last'.name>> =>
                            ReadBack(redis', q[1], q[2], D) = ReadBack(redis, q[1], q[2], D)
    ]_vars

\* the record of user Some(1), field "1" of the dialogue hash of chat 1, has
\* just been removed while alias "1" of chat 1 is mapped, user None of chat 1
\* holds a record and chat -1 holds a record of user Some(1)
C18_Witness ==
    /\ last.op = "remove_dialogue"
    /\ last.ret = Ok(Unit)
    /\ last.chat = 1
    /\ last.name = Some(1)
    /\ get_from_field(last.name) = <<"1">>
    /\ ReadAlias(redis, 1, <<"1">>) = Some(<<"Y">>)
    /\ dlgHist[<<1, None>>].tag = "Some"
    /\ dlgHist[<<-1, Some(1)>>].tag = "Some"

\* C19: get_sticker_id and get_dialogue leave the store as it was on every
\* outcome; and a record of (c, u) that fails to decode at a type keeps
\* failing to decode at that type through every call that is not a
\* successful update_dialogue or remove_dialogue of (c, u).
C19_ReadsDoNotWrite ==
    [][\* (a call that left the whole store as it was changed no read)
       \/ redis' = redis
       \/ /\ last'.op \notin {"get_sticker_id", "get_dialogue"}
          /\ \A q \in DialoguePairs : \A D \in ReadTypes :
                (/\ ReadBack(redis, q[1], q[2], D) = Err("SerdeError")
                 /\ ~(/\ last'.op \in {"update_dialogue", "remove_dialogue"}
                      /\ <<last'.chat, last'.name>> = q
                      /\ last'.ret.tag = "Ok"))
                    => ReadBack(redis', q[1], q[2], D) = Err("SerdeError")
    ]_vars

\* a read of a record that does not decode has returned the error and the
\* store is still the one the earlier calls left
C19_Witness ==
    /\ last.op = "get_dialogue"
    /\ last.net = "ok"
    /\ last.ret = Err("SerdeError")
    /\ last.chat = -1
    /\ redis = SeedDb
    /\ ReadBack(redis, last.chat, last.name, last.ty) = Err("SerdeError")

====
